---- MODULE Spec2Model ----
(***************************************************************************)
(* Model of src/function/api-rdf/handler.py (osmrdf2023): the OSM XML to   *)
(* RDF Turtle pipeline.  Three entry points are modelled, each with its    *)
(* own specification over the same variables:                              *)
(*   SpecRetag   OSMElementTagger.retag applied to one tag list            *)
(*   SpecSingle  the single-element converters osmrdf_*_xml2ttl            *)
(*   SpecDump    the streaming converter osmrdf_xmldump2_ttl_v2            *)
(*   SpecParse   OSMElementTagger built from a rule text, then used        *)
(*   SpecStream  osmrdf_xmldump2_ttl_v2 or the deprecated                  *)
(*               osmrdf_xmldump2_ttl on one document                       *)
(*                                                                         *)
(* Python values are modelled as follows.  A str that the code only copies *)
(* is a TLA+ string.  A tag key, which the code searches and rewrites      *)
(* character by character, is a sequence of one-character strings.  None   *)
(* is the empty sequence and a present value v is <<v>>.  A raised         *)
(* exception is recorded by its class name; "" means no exception.         *)
(***************************************************************************)
EXTENDS Integers, Sequences, FiniteSets, TLC

VARIABLES
    pc,             \* position of the entry point being run
    rules_tsv,      \* the rule text handed to OSMElementTagger
    rules,          \* OSMElementTagger.rules
    element,        \* retag: the element argument (an XML tag name)
    de_facto_tags,  \* retag: the de_facto_tags argument
    new_tags,       \* retag: what the call returned or raised
    data_xml,       \* single-element mode: the document handed to a converter
    output,         \* lines returned (single-element mode) or printed (dump mode)
    xml_file,       \* dump mode: the document, a sequence of top-level elements
    xml_filter,     \* dump mode: the xml_filter argument
    pos,            \* dump mode: number of iterparse 'end' events consumed
    xml_tags,       \* dump mode: tag accumulator
    xml_nds,        \* dump mode: node-ref accumulator
    xml_members,    \* dump mode: member accumulator
    el,             \* dump mode: the OSMElement objects built so far
    raised          \* dump mode: exception that ended the run ("" = none)

vars == <<pc, rules_tsv, rules, element, de_facto_tags, new_tags, data_xml, output,
          xml_file, xml_filter, pos, xml_tags, xml_nds, xml_members, el, raised>>

-----------------------------------------------------------------------------
(* Bounds of the model                                                     *)

MaxKeyLen == 2
MaxTags == 3
MaxRules == 2
MaxElTags == 2
MaxXmlLines == 2
MaxElems == 2
MaxRuleLines == 2
MaxFields == 5

-----------------------------------------------------------------------------
(* Python values                                                           *)

None == <<>>

Some(v) == <<v>>

Range(s) == {s[i] : i \in 1..Len(s)}

SeqsUpTo(S, n) == UNION {[1..m -> S] : m \in 0..n}

\* str.__contains__: `s in t` for two str values
StrIn(s, t) ==
    \E i \in 0..(Len(t) - Len(s)) : SubSeq(t, i + 1, i + Len(s)) = s

\* list.remove(x): drops the first occurrence; raises ValueError when absent
ListRemove(l, x) ==
    IF x \in Range(l)
    THEN LET k == CHOOSE i \in 1..Len(l) :
                      l[i] = x /\ \A j \in 1..(i - 1) : l[j] # x
         IN [raised |-> "", list |-> SubSeq(l, 1, k - 1) \o SubSeq(l, k + 1, Len(l))]
    ELSE [raised |-> "ValueError", list |-> l]

ElementKinds == {"node", "way", "relation"}

-----------------------------------------------------------------------------
(* OSMElementTagger.retag                                                  *)

\* left_rules.remove(rule['i']) on the loop state st
LeftRulesRemove(st, i) ==
    LET r == ListRemove(st.left_rules, i)
    IN  [st EXCEPT !.left_rules = r.list, !.raised = r.raised]

\* the inner loop `for tag_key, tag_value in new_tags`, from pair j on
RECURSIVE ScanTags(_, _, _, _)
ScanTags(rule, tags, j, st) ==
    IF j > Len(tags) \/ st.raised # "" THEN st
    ELSE LET tag_key == tags[j][1]
             tag_value == tags[j][2]
         IN  IF rule.op = "-" /\ StrIn(tag_key, rule.xack)
             THEN \* remove, then `continue`
                  ScanTags(rule, tags, j + 1, LeftRulesRemove(st, rule.i))
             ELSE IF rule.op = "+" /\ StrIn(tag_key, rule.xack)
             THEN \* tag_value = rule['xacv'], remove, then `break`
                  LeftRulesRemove(st, rule.i)
             ELSE ScanTags(rule, tags, j + 1,
                      [st EXCEPT !.new_tags_temp = Append(@, <<tag_key, tag_value>>)])

\* the outer loop `for rule in self.rules`, from rule r on; every rule scans
\* tags, the list new_tags names throughout the loop
RECURSIVE RuleLoop(_, _, _, _, _)
RuleLoop(rs, elem, tags, r, st) ==
    IF r > Len(rs) \/ st.raised # "" THEN st
    ELSE LET rule == rs[r]
         IN  IF rule.xt # None /\ elem \notin Range(rule.xt[1])
             THEN RuleLoop(rs, elem, tags, r + 1, LeftRulesRemove(st, rule.i))
             ELSE RuleLoop(rs, elem, tags, r + 1,
                      ScanTags(rule, tags, 1, [st EXCEPT !.new_tags_temp = <<>>]))

\* the loop `for rule_index in left_rules`, from position k on
RECURSIVE AppendLeft(_, _, _, _)
AppendLeft(rs, left_rules, k, tags) ==
    IF k > Len(left_rules) THEN tags
    ELSE LET rule == rs[left_rules[k] + 1]
         IN  AppendLeft(rs, left_rules, k + 1,
                 IF rule.op = "+" THEN Append(tags, <<rule.xack, rule.xacv>>)
                 ELSE tags)

\* retag(element, de_facto_tags) on a tagger whose rules are rs
Retag(rs, elem, tags) ==
    IF Len(rs) = 0 THEN [raised |-> "", tags |-> tags]
    ELSE LET st == RuleLoop(rs, elem, tags, 1,
                       [new_tags_temp |-> <<>>,
                        left_rules |-> [k \in 1..Len(rs) |-> k - 1],
                        raised |-> ""])
         IN  IF st.raised # "" THEN [raised |-> st.raised, tags |-> <<>>]
             ELSE [raised |-> "",
                   tags |-> AppendLeft(rs, st.left_rules, 1, st.new_tags_temp)]

-----------------------------------------------------------------------------
(* SpecRetag: one call of retag on drawn rules, element kind and tags      *)

Alphabet == {"a", "b"}

RetagKeys == SeqsUpTo(Alphabet, MaxKeyLen) \ {<<>>}

RetagTagLists == SeqsUpTo(RetagKeys \X {"x"}, MaxTags)

\* the element-kind filters a parsed rule carries: None for '*', else a list
RetagXt == {None, Some(<<"way">>)}

\* parsed rules without their index 'i'
RetagRuleBodies ==
    [op : {"+", "-"}, xt : RetagXt, xack : RetagKeys, xacv : {"v"}]

\* parse_rules numbers the rules 0, 1, ... in file order
Indexed(bodies) ==
    [k \in 1..Len(bodies) |->
        [i |-> k - 1, op |-> bodies[k].op, xt |-> bodies[k].xt,
         xack |-> bodies[k].xack, xacv |-> bodies[k].xacv]]

RetagRuleLists == {Indexed(b) : b \in SeqsUpTo(RetagRuleBodies, MaxRules)}

NoDump ==
    /\ xml_file = <<>>
    /\ xml_filter = None
    /\ pos = 0
    /\ xml_tags = <<>>
    /\ xml_nds = <<>>
    /\ xml_members = <<>>
    /\ el = <<>>
    /\ raised = ""

InitRetag ==
    /\ pc = "retag"
    /\ rules \in RetagRuleLists
    /\ element \in ElementKinds
    /\ de_facto_tags \in RetagTagLists
    /\ new_tags = [raised |-> "", tags |-> <<>>]
    /\ data_xml = <<>>
    /\ output = <<>>
    /\ NoDump
    /\ rules_tsv = <<>>

CallRetag ==
    /\ pc = "retag"
    /\ new_tags' = Retag(rules, element, de_facto_tags)
    /\ pc' = "returned"
    /\ UNCHANGED <<rules_tsv, rules, element, de_facto_tags, data_xml, output, xml_file,
                   xml_filter, pos, xml_tags, xml_nds, xml_members, el, raised>>

NextRetag == CallRetag

SpecRetag == InitRetag /\ [][NextRetag]_vars

-----------------------------------------------------------------------------
(* Module constants of handler.py                                          *)

RDF_TURTLE_PREFIXES ==
    << "PREFIX geo: <http://www.opengis.net/ont/geosparql#>",
       "PREFIX osmnode: <https://www.openstreetmap.org/node/>",
       "PREFIX osmrel: <https://www.openstreetmap.org/relation/>",
       "PREFIX osmway: <https://www.openstreetmap.org/way/>",
       "PREFIX osmm: <https://example.org/todo-meta/>",
       "PREFIX osmt: <https://wiki.openstreetmap.org/wiki/Key:>",
       "PREFIX osmx: <https://example.org/todo-xref/>",
       "PREFIX wikidata: <http://www.wikidata.org/entity/>",
       "PREFIX xsd: <http://www.w3.org/2001/XMLSchema#>" >>

OSM_ELEMENT_PREFIX ==
    [node |-> "osmnode:", relation |-> "osmrel:", tag |-> "osmt:", way |-> "osmway:"]

OSM_ELEMENT_TYPE_LITERAL == [node |-> "n", way |-> "w", rel |-> "r"]

-----------------------------------------------------------------------------
(* Conversions between text and numbers                                    *)

Digits == {"0", "1", "2", "3", "4", "5", "6", "7", "8", "9"}

DigitVal(d) == CHOOSE n \in 0..9 : ToString(n) = d

\* int(text) for a decimal numeral given as its sequence of digit characters
RECURSIVE PyInt(_)
PyInt(text) ==
    IF Len(text) = 0 THEN 0
    ELSE 10 * PyInt(SubSeq(text, 1, Len(text) - 1)) + DigitVal(text[Len(text)])

\* float(text) for a numeral without fraction or exponent: the float's value
PyFloat(text) == PyInt(text)

\* f'{x}' for a float holding an integer value: Python prints it with '.0'
FloatStr(x) == ToString(x) \o ".0"

\* f'{x}' for an int
IntStr(x) == ToString(x)

\* str(x) / f'{x}' for an optional int or str: None prints as 'None'
OptIntStr(opt) == IF opt = None THEN "None" ELSE IntStr(opt[1])

OptStr(opt) == IF opt = None THEN "None" ELSE opt[1]

\* a str held as a sequence of characters, as one string
RECURSIVE JoinStr(_)
JoinStr(chars) ==
    IF Len(chars) = 0 THEN "" ELSE chars[1] \o JoinStr(Tail(chars))

\* sep.join(parts)
RECURSIVE Join(_, _)
Join(sep, parts) ==
    IF Len(parts) = 0 THEN ""
    ELSE IF Len(parts) = 1 THEN parts[1]
    ELSE parts[1] \o sep \o Join(sep, Tail(parts))

\* truth value of an optional int or float, an optional str, an optional list
TruthyNum(opt) == opt # None /\ opt[1] # 0

TruthyStr(opt) == opt # None /\ opt[1] # ""

TruthyList(opt) == opt # None /\ Len(opt[1]) > 0

-----------------------------------------------------------------------------
(* osmrdf_tagkey_encode and OSMElementTagValueCast                         *)

\* raw_tag.replace(' ', '%20')
RECURSIVE osmrdf_tagkey_encode(_)
osmrdf_tagkey_encode(raw_tag) ==
    IF Len(raw_tag) = 0 THEN <<>>
    ELSE (IF raw_tag[1] = " " THEN <<"%", "2", "0">> ELSE <<raw_tag[1]>>)
         \o osmrdf_tagkey_encode(Tail(raw_tag))

Wikidata == <<"w", "i", "k", "i", "d", "a", "t", "a">>

\* OSMElementTagValueCast.can_cast
can_cast(tagkey) == tagkey \in {Wikidata}

\* OSMElementTagValueCast.to_ttl
cast_to_ttl(tagkey, tagvalue) ==
    "    osmx:" \o JoinStr(tagkey) \o " wikidata:" \o tagvalue \o " ;"

\* the object OSMElementTagValueCast(None) builds
TagValueCast == [rules |-> None]

-----------------------------------------------------------------------------
(* OSMElementFilter                                                        *)

\* OSMElementFilter.can_tag on a filter f = [xml_tags, xml_tags_not], each
\* None or a list
can_tag(f, tag) ==
    IF ~TruthyList(f.xml_tags) /\ ~TruthyList(f.xml_tags_not) THEN TRUE
    ELSE IF (~TruthyList(f.xml_tags) \/ tag \in Range(f.xml_tags[1]))
            /\ (~TruthyList(f.xml_tags_not) \/ tag \notin Range(f.xml_tags_not[1]))
    THEN TRUE
    ELSE FALSE

-----------------------------------------------------------------------------
(* OSMElement                                                              *)

\* int(meta[name]) if name in meta else None
MetaInt(meta, name) ==
    IF meta[name] = None THEN None ELSE Some(PyInt(meta[name][1]))

\* float(meta[name]) if name in meta else None
MetaFloat(meta, name) ==
    IF meta[name] = None THEN None ELSE Some(PyFloat(meta[name][1]))

\* meta[name] if name in meta else None
MetaStr(meta, name) == meta[name]

\* OSMElement.__init__; meta gives every attribute as None (absent) or its text
OSMElement(tag, meta, p_xml_tags, p_xml_nds, p_xml_members, p_xml_filter, p_tagcaster) ==
    LET id == MetaInt(meta, "id")
    IN  [id |-> id,
         version |-> MetaStr(meta, "version"),
         changeset |-> MetaInt(meta, "changeset"),
         timestamp |-> MetaStr(meta, "timestamp"),
         user |-> MetaStr(meta, "user"),
         userid |-> MetaInt(meta, "uid"),
         lat |-> MetaFloat(meta, "lat"),
         lon |-> MetaFloat(meta, "lon"),
         _tag |-> tag,
         _basegroup |-> OSM_ELEMENT_PREFIX[tag] \o OptIntStr(id),
         _el_osm_tags |-> p_xml_tags,
         _el_osm_nds |-> p_xml_nds,
         _el_osm_members |-> p_xml_members,
         _xml_filter |-> p_xml_filter,
         _tagcaster |-> p_tagcaster]

\* OSMElement.can_output: the filter is dereferenced without a None test
can_output(e) ==
    IF e._xml_filter = None THEN [raised |-> "AttributeError", value |-> FALSE]
    ELSE [raised |-> "", value |-> can_tag(e._xml_filter[1], e._tag)]

ChangesetLine(n) == "    osmm:changeset " \o IntStr(n) \o " ;"

LocLine(lat, lon) ==
    "    osmm:loc \"Point(" \o FloatStr(lat) \o " " \o FloatStr(lon)
        \o ")\"^^geo:wktLiteral ;"

TimestampLine(t) == "    osmm:timestamp \"" \o t \o "\"^^xsd:dateTime ;"

TypeLine(literal) == "    osmm:type \"" \o literal \o "\" ;"

UserLine(u) == "    osmm:user \"" \o u \o "\" ;"

UseridLine(n) == "    osmm:userid " \o IntStr(n) \o " ;"

VersionLine(v) == "    osmm:version " \o v \o " ;"

TagLine(escp_key, value) ==
    "    osmt:" \o JoinStr(escp_key) \o " \"" \o value \o "\" ;"

\* the loop `for key, value in self._el_osm_tags`, from pair j on
RECURSIVE TagLines(_, _, _)
TagLines(tags, j, tagcaster) ==
    IF j > Len(tags) THEN <<>>
    ELSE LET _escp_key == osmrdf_tagkey_encode(tags[j][1])
             value == tags[j][2]
         IN  <<TagLine(_escp_key, value)>>
             \o (IF tagcaster # None /\ can_cast(_escp_key)
                 THEN <<cast_to_ttl(_escp_key, value)>> ELSE <<>>)
             \o TagLines(tags, j + 1, tagcaster)

HasnodesLine(nds) ==
    "    osmx:hasnodes ("
        \o Join(" ", [k \in 1..Len(nds) |-> "osmnode:" \o IntStr(nds[k])])
        \o ") ;"

HasmembersLine(members) ==
    "    osmx:hasmembers ("
        \o Join(" ", [k \in 1..Len(members) |->
                        "[osmx:hasrole" \o OptStr(members[k][3]) \o " "
                            \o OSM_ELEMENT_PREFIX[members[k][1]]
                            \o IntStr(members[k][2]) \o "]"])
        \o ") ;"

\* OSMElement.to_ttl
to_ttl(e) ==
    <<e._basegroup>>
    \o (IF TruthyNum(e.changeset) THEN <<ChangesetLine(e.changeset[1])>> ELSE <<>>)
    \o (IF TruthyNum(e.lat) /\ TruthyNum(e.lon)
        THEN <<LocLine(e.lat[1], e.lon[1])>> ELSE <<>>)
    \o (IF TruthyStr(e.timestamp) THEN <<TimestampLine(e.timestamp[1])>> ELSE <<>>)
    \o (IF e._tag \in DOMAIN OSM_ELEMENT_TYPE_LITERAL
        THEN <<TypeLine(OSM_ELEMENT_TYPE_LITERAL[e._tag])>> ELSE <<>>)
    \o (IF TruthyStr(e.user) THEN <<UserLine(e.user[1])>> ELSE <<>>)
    \o (IF TruthyNum(e.userid) THEN <<UseridLine(e.userid[1])>> ELSE <<>>)
    \o (IF TruthyStr(e.version) THEN <<VersionLine(e.version[1])>> ELSE <<>>)
    \o (IF TruthyList(e._el_osm_tags)
        THEN TagLines(e._el_osm_tags[1], 1, e._tagcaster) ELSE <<>>)
    \o (IF TruthyList(e._el_osm_nds) THEN <<HasnodesLine(e._el_osm_nds[1])>> ELSE <<>>)
    \o (IF TruthyList(e._el_osm_members)
        THEN <<HasmembersLine(e._el_osm_members[1])>> ELSE <<>>)
    \o <<".">>

-----------------------------------------------------------------------------
(* XML documents.  An element is [tag, attrib, child]: attrib gives each    *)
(* attribute the code reads as None or its text, child gives for each child *)
(* tag name the children of that name in document order.                    *)

\* elem.findall(name)
findall(elem, name) == elem.child[name]

\* [(item.attrib['k'], item.attrib['v']) for item in items]
TagPairs(items) == [k \in 1..Len(items) |-> <<items[k].k, items[k].v>>]

\* [int(item.attrib['ref']) for item in items]
NdRefs(items) == [k \in 1..Len(items) |-> PyInt(items[k].ref)]

\* [(type, int(ref), role if 'role' in attrib else None) for item in items]
MemberRefs(items) ==
    [k \in 1..Len(items) |-> <<items[k].type, PyInt(items[k].ref), items[k].role>>]

\* the pattern `x = None; if items: x = [...]` of OSMApiv06Xml.node
ListOrNone(items, list) == IF Len(items) > 0 THEN Some(list) ELSE None

\* OSMApiv06Xml.node: the OSMElement of the first child of the root
ApiNode(doc) ==
    LET child == doc.children[1]
        _eltags == findall(child, "tag")
        _elnds == findall(child, "nd")
        _elmembers == findall(child, "member")
    IN  OSMElement(child.tag, child.attrib,
                   ListOrNone(_eltags, TagPairs(_eltags)),
                   ListOrNone(_elnds, NdRefs(_elnds)),
                   ListOrNone(_elmembers, MemberRefs(_elmembers)),
                   None, None)

-----------------------------------------------------------------------------
(* SpecSingle: one call of a single-element converter on a drawn document  *)

\* attribute text of a numeric attribute: absent, zero, non-zero
NumText == {None, Some(<<"0">>), Some(<<"1", "2">>)}

\* attribute text of version, which the code keeps as a str
VersionText == {None, Some(""), Some("3")}

XmlAttribs ==
    [id : {Some(<<"1">>)},
     version : VersionText,
     changeset : NumText,
     timestamp : {None, Some("2022-11-25T19:22:00Z")},
     user : {None, Some("u")},
     uid : NumText,
     lat : NumText,
     lon : NumText]

XmlTagItems == {[k |-> Wikidata, v |-> "Q42"], [k |-> <<"a", " ", "b">>, v |-> "x"]}

XmlNdItems == {[ref |-> <<"5">>]}

XmlMemberItems == {[type |-> "way", ref |-> <<"5">>, role |-> Some("outer")]}

XmlElements ==
    [tag : ElementKinds,
     attrib : XmlAttribs,
     child : [tag : SeqsUpTo(XmlTagItems, MaxElTags),
              tagi : {<<>>},
              nd : SeqsUpTo(XmlNdItems, 1),
              member : SeqsUpTo(XmlMemberItems, 1)]]

\* the text of the document is kept as its lines, each line's content opaque
XmlTexts == {[k \in 1..n |-> "<xml line " \o ToString(k) \o ">"] : n \in 1..MaxXmlLines}

\* an API response: a root with one child element
XmlResponses == [children : {<<e>> : e \in XmlElements}, lines : XmlTexts]

NoRetag ==
    /\ rules = <<>>
    /\ element = ""
    /\ de_facto_tags = <<>>
    /\ new_tags = [raised |-> "", tags |-> <<>>]

InitSingle ==
    /\ pc = "single"
    /\ data_xml \in XmlResponses
    /\ output = <<>>
    /\ NoRetag
    /\ NoDump
    /\ rules_tsv = <<>>

\* "# " + "\n# ".join(data_xml.split("\n")), as the lines it adds
DebugComment(lines) == [k \in 1..Len(lines) |-> "# " \o lines[k]]

\* the body the three converters share; the value returned is
\* "\n".join(output), kept as its sequence of lines
Xml2Ttl(kind, comment) ==
    /\ pc = "single"
    /\ data_xml.children[1].tag = kind
    /\ LET osmnode == ApiNode(data_xml)
       IN  /\ el' = <<osmnode>>
           /\ output' = RDF_TURTLE_PREFIXES \o <<"">> \o to_ttl(osmnode) \o <<"">>
                            \o comment
    /\ pc' = "done"
    /\ UNCHANGED <<rules_tsv, rules, element, de_facto_tags, new_tags, data_xml, xml_file,
                   xml_filter, pos, xml_tags, xml_nds, xml_members, raised>>

\* handle() calls each converter on the response for a path of its kind
osmrdf_node_xml2ttl == Xml2Ttl("node", <<>>)

osmrdf_relation_xml2ttl == Xml2Ttl("relation", DebugComment(data_xml.lines))

osmrdf_way_xml2ttl == Xml2Ttl("way", <<>>)

NextSingle ==
    \/ osmrdf_node_xml2ttl
    \/ osmrdf_relation_xml2ttl
    \/ osmrdf_way_xml2ttl

SpecSingle == InitSingle /\ [][NextSingle]_vars

-----------------------------------------------------------------------------
(* SpecDump: osmrdf_xmldump2_ttl_v2 on a drawn document, filter and rules  *)

NoAttribs ==
    [id |-> None, version |-> None, changeset |-> None, timestamp |-> None,
     user |-> None, uid |-> None, lat |-> None, lon |-> None]

DumpTagItems == {[k |-> <<"a">>, v |-> "x"]}

DumpTagiItems == {[k |-> <<"c">>, v |-> "x"]}

Primitive(tag, tags, tagis, nds, members) ==
    [tag |-> tag, attrib |-> NoAttribs,
     child |-> [tag |-> tags, tagi |-> tagis, nd |-> nds, member |-> members]]

\* nodes with plain tags; ways with node refs, a wikidata tag and an implicit
\* tag, or with no child at all; relations with or without a member
DumpPrimitives ==
    {Primitive("node", t, <<>>, <<>>, <<>>) : t \in SeqsUpTo(DumpTagItems, MaxElTags)}
    \cup {Primitive("way", t, ti, n, <<>>) :
              t \in SeqsUpTo({[k |-> Wikidata, v |-> "Q42"]}, 1),
              ti \in SeqsUpTo(DumpTagiItems, 1),
              n \in [1..1 -> XmlNdItems]}
    \cup {Primitive("way", <<>>, <<>>, <<>>, <<>>)}
    \cup {Primitive("relation", <<>>, <<>>, <<>>, m) : m \in SeqsUpTo(XmlMemberItems, 1)}

DumpBounds == Primitive("bounds", <<>>, <<>>, <<>>, <<>>)

\* the k-th primitive of a document gets id k
WithIds(elems) ==
    [k \in 1..Len(elems) |->
        IF elems[k].tag \in ElementKinds
        THEN [elems[k] EXCEPT !.attrib.id = Some(<<ToString(k)>>)]
        ELSE elems[k]]

\* the children of the root element <osm>
DumpDocuments ==
    {WithIds(d) : d \in SeqsUpTo(DumpPrimitives \cup {DumpBounds}, MaxElems)}

\* the xml_filter argument: None (its default) or an OSMElementFilter whose
\* two lists are each None or set
DumpFilters ==
    {None} \cup
    {Some(f) : f \in [xml_tags : {None, Some(<<"node", "way">>)},
                      xml_tags_not : {None, Some(<<"way">>)}]}

\* the rules OSMElementTagger(retagger) holds: none, or rules of the forms
\* the docstring of OSMElementTagger shows
DumpRuleLists ==
    LET add == [op |-> "+", xt |-> Some(<<"way">>), xack |-> <<"d">>, xacv |-> "v"]
        remove == [op |-> "-", xt |-> Some(<<"node", "way", "relation">>),
                   xack |-> <<"a">>, xacv |-> "*"]
    IN  {Indexed(b) : b \in {<<>>, <<add>>, <<remove>>, <<add, remove>>}}

\* the 'end' events of one element: its children, then the element itself
ElementEvents(elems, k) ==
    LET c == elems[k].child
        n == Len(c.tag) + Len(c.tagi) + Len(c.nd) + Len(c.member)
    IN  [j \in 1..(n + 1) |->
            IF j <= Len(c.tag) THEN [tag |-> "tag", index |-> k]
            ELSE IF j <= Len(c.tag) + Len(c.tagi) THEN [tag |-> "tagi", index |-> k]
            ELSE IF j <= Len(c.tag) + Len(c.tagi) + Len(c.nd)
                 THEN [tag |-> "nd", index |-> k]
            ELSE IF j <= n THEN [tag |-> "member", index |-> k]
            ELSE [tag |-> elems[k].tag, index |-> k]]

\* etree.iterparse(xml_file_path, events=('end',)): every element of the
\* document at its end tag, the root <osm> last
RECURSIVE EndEvents(_, _)
EndEvents(elems, k) ==
    IF k > Len(elems) THEN <<[tag |-> "osm", index |-> 0]>>
    ELSE ElementEvents(elems, k) \o EndEvents(elems, k + 1)

context == EndEvents(xml_file, 1)

SkippedTags == {"osm", "bounds", "nd", "member", "tag", "tagi"}

InitDump ==
    /\ pc = "start"
    /\ xml_file \in DumpDocuments
    /\ xml_filter \in DumpFilters
    /\ rules \in DumpRuleLists
    /\ pos = 0
    /\ xml_tags = <<>>
    /\ xml_nds = <<>>
    /\ xml_members = <<>>
    /\ el = <<>>
    /\ raised = ""
    /\ output = <<>>
    /\ data_xml = <<>>
    /\ element = ""
    /\ de_facto_tags = <<>>
    /\ new_tags = [raised |-> "", tags |-> <<>>]
    /\ rules_tsv = <<>>

\* lines 580-598: print the prefixes and an empty line, set up the loop
DumpStart ==
    /\ pc = "start"
    /\ output' = RDF_TURTLE_PREFIXES \o <<"">>
    /\ xml_tags' = <<>>
    /\ xml_nds' = <<>>
    /\ xml_members' = <<>>
    /\ pc' = "loop"
    /\ UNCHANGED <<rules_tsv, rules, element, de_facto_tags, new_tags, data_xml, xml_file,
                   xml_filter, pos, el, raised>>

\* a loop iteration that ends at `continue` (lines 601-602)
DumpSkip ==
    /\ pc = "loop"
    /\ pos < Len(context)
    /\ context[pos + 1].tag \in SkippedTags
    /\ pos' = pos + 1
    /\ UNCHANGED <<rules_tsv, pc, rules, element, de_facto_tags, new_tags, data_xml, output,
                   xml_file, xml_filter, xml_tags, xml_nds, xml_members, el, raised>>

\* a loop iteration that lacks lines 641-643: the accumulators keep what
\* the element left in them
DumpIterationNoReset(elem) ==
    LET tags1 == xml_tags \o TagPairs(findall(elem, "tag"))
        first == Retag(rules, elem.tag, tags1)
        tags2 == first.tags \o TagPairs(findall(elem, "tagi"))
        second == Retag(rules, elem.tag, tags2)
        _elnds == findall(elem, "nd")
        nds == IF Len(_elnds) > 0 THEN NdRefs(_elnds) ELSE xml_nds
        _elmembers == findall(elem, "member")
        members == IF Len(_elmembers) > 0 THEN MemberRefs(_elmembers) ELSE xml_members
        built == OSMElement(elem.tag, elem.attrib, Some(second.tags), Some(nds),
                            Some(members), xml_filter, Some(TagValueCast))
        can == can_output(built)
        before == [xml_tags |-> xml_tags, xml_nds |-> xml_nds,
                   xml_members |-> xml_members, el |-> el, output |-> output,
                   raised |-> ""]
    IN  IF first.raised # ""
        THEN [before EXCEPT !.xml_tags = tags1, !.raised = first.raised]
        ELSE IF second.raised # ""
        THEN [before EXCEPT !.xml_tags = tags2, !.raised = second.raised]
        ELSE IF elem.tag \notin DOMAIN OSM_ELEMENT_PREFIX
        THEN [before EXCEPT !.xml_tags = second.tags, !.xml_nds = nds,
                            !.xml_members = members, !.raised = "KeyError"]
        ELSE [xml_tags |-> second.tags, xml_nds |-> nds, xml_members |-> members,
              el |-> Append(el, built),
              output |-> IF can.raised = "" /\ can.value
                         THEN output \o to_ttl(built) \o <<"">> ELSE output,
              raised |-> can.raised]

\* what a full loop iteration (lines 604-650) on elem leaves behind:
\* the accumulators, the elements built, the lines printed, the exception
DumpIteration(elem) ==
    LET tags1 == xml_tags \o TagPairs(findall(elem, "tag"))
        first == Retag(rules, elem.tag, tags1)
        tags2 == first.tags \o TagPairs(findall(elem, "tagi"))
        second == Retag(rules, elem.tag, tags2)
        _elnds == findall(elem, "nd")
        nds == IF Len(_elnds) > 0 THEN NdRefs(_elnds) ELSE xml_nds
        _elmembers == findall(elem, "member")
        members == IF Len(_elmembers) > 0 THEN MemberRefs(_elmembers) ELSE xml_members
        built == OSMElement(elem.tag, elem.attrib, Some(second.tags), Some(nds),
                            Some(members), xml_filter, Some(TagValueCast))
        can == can_output(built)
        before == [xml_tags |-> xml_tags, xml_nds |-> xml_nds,
                   xml_members |-> xml_members, el |-> el, output |-> output,
                   raised |-> ""]
    IN  IF first.raised # ""
        THEN [before EXCEPT !.xml_tags = tags1, !.raised = first.raised]
        ELSE IF second.raised # ""
        THEN [before EXCEPT !.xml_tags = tags2, !.raised = second.raised]
        ELSE IF elem.tag \notin DOMAIN OSM_ELEMENT_PREFIX
        THEN [before EXCEPT !.xml_tags = second.tags, !.xml_nds = nds,
                            !.xml_members = members, !.raised = "KeyError"]
        ELSE [xml_tags |-> <<>>, xml_nds |-> <<>>, xml_members |-> <<>>,
              el |-> Append(el, built),
              output |-> IF can.raised = "" /\ can.value
                         THEN output \o to_ttl(built) \o <<"">> ELSE output,
              raised |-> can.raised]

\* a full loop iteration on a node, way or relation
DumpElement ==
    /\ pc = "loop"
    /\ pos < Len(context)
    /\ context[pos + 1].tag \notin SkippedTags
    /\ LET after == DumpIteration(xml_file[context[pos + 1].index])
       IN  /\ xml_tags' = after.xml_tags
           /\ xml_nds' = after.xml_nds
           /\ xml_members' = after.xml_members
           /\ el' = after.el
           /\ output' = after.output
           /\ raised' = after.raised
           /\ pc' = IF after.raised = "" THEN "loop" ELSE "raised"
    /\ pos' = pos + 1
    /\ UNCHANGED <<rules_tsv, rules, element, de_facto_tags, new_tags, data_xml, xml_file,
                   xml_filter>>

\* the iterator is exhausted and the function returns
DumpEnd ==
    /\ pc = "loop"
    /\ pos = Len(context)
    /\ pc' = "end"
    /\ UNCHANGED <<rules_tsv, rules, element, de_facto_tags, new_tags, data_xml, output,
                   xml_file, xml_filter, pos, xml_tags, xml_nds, xml_members, el,
                   raised>>

NextDump == DumpStart \/ DumpSkip \/ DumpElement \/ DumpEnd

SpecDump == InitDump /\ [][NextDump]_vars

-----------------------------------------------------------------------------
(* osmrdf_xmldump2_ttl (deprecated): the loop over 'start' and 'end' events *)

\* the events of one element: its start, the start and end of each child
\* in document order, its end
V1ElementEvents(elems, k) ==
    LET ends == ElementEvents(elems, k)
        n == Len(ends) - 1
    IN  [j \in 1..(2 * n + 2) |->
            IF j = 1 THEN [event |-> "start", tag |-> elems[k].tag, index |-> k]
            ELSE IF j = 2 * n + 2
            THEN [event |-> "end", tag |-> elems[k].tag, index |-> k]
            ELSE [event |-> IF j % 2 = 0 THEN "start" ELSE "end",
                  tag |-> ends[j \div 2].tag, index |-> 0]]

RECURSIVE V1Events(_, _)
V1Events(elems, k) ==
    IF k > Len(elems) THEN <<[event |-> "end", tag |-> "osm", index |-> 0]>>
    ELSE V1ElementEvents(elems, k) \o V1Events(elems, k + 1)

\* ET.iterparse(xml_file_path, events=("start", "end"))
context_v1 == <<[event |-> "start", tag |-> "osm", index |-> 0]>> \o V1Events(xml_file, 1)

\* an element as a 'start' event shows it: the parser has read on by an
\* amount that depends on where its input blocks end, so the first `seen`
\* children are attached, the others not yet
SeenAtStart(elem, seen) ==
    LET c == elem.child
        Take(s, m) == SubSeq(s, 1, IF m < 0 THEN 0 ELSE IF m > Len(s) THEN Len(s) ELSE m)
    IN  [elem EXCEPT !.child =
            [tag |-> Take(c.tag, seen),
             tagi |-> Take(c.tagi, seen - Len(c.tag)),
             nd |-> Take(c.nd, seen - Len(c.tag) - Len(c.tagi)),
             member |-> Take(c.member, seen - Len(c.tag) - Len(c.tagi) - Len(c.nd))]]

NumChildren(elem) ==
    Len(elem.child.tag) + Len(elem.child.tagi) + Len(elem.child.nd) + Len(elem.child.member)

\* lines 499-509: import the parser, print the prefixes and an empty line,
\* set up the loop.  xml.etree.cElementTree exists up to Python 3.8; on a
\* later interpreter the import raises and the function does nothing else
V1Start ==
    /\ pc = "v1start"
    /\ \E has_cElementTree \in BOOLEAN :
         IF has_cElementTree
         THEN /\ output' = RDF_TURTLE_PREFIXES \o <<"">>
              /\ raised' = raised
              /\ pc' = "v1loop"
         ELSE /\ output' = output
              /\ raised' = "ImportError"
              /\ pc' = "v1raised"
    /\ xml_tags' = <<>>
    /\ xml_nds' = <<>>
    /\ xml_members' = <<>>
    /\ UNCHANGED <<rules_tsv, rules, element, de_facto_tags, new_tags, data_xml, xml_file,
                   xml_filter, pos, el>>

\* the three `continue`: bounds and osm, nd and member, the end of a tag
V1Skip ==
    /\ pc = "v1loop"
    /\ pos < Len(context_v1)
    /\ LET ev == context_v1[pos + 1]
       IN  \/ ev.tag \in {"bounds", "osm"}
           \/ ev.tag \in {"nd", "member"}
           \/ ev.event = "end" /\ ev.tag = "tag"
    /\ pos' = pos + 1
    /\ UNCHANGED <<rules_tsv, pc, rules, element, de_facto_tags, new_tags, data_xml, output,
                   xml_file, xml_filter, xml_tags, xml_nds, xml_members, el, raised>>

\* the block `if event == 'start'`; a tag or tagi child has no children
V1StartEvent ==
    /\ pc = "v1loop"
    /\ pos < Len(context_v1)
    /\ LET ev == context_v1[pos + 1]
       IN  /\ ev.tag \notin {"bounds", "osm", "nd", "member"}
           /\ ev.event = "start"
           /\ IF ev.index = 0
              THEN UNCHANGED <<xml_tags, xml_nds, xml_members>>
              ELSE \E seen \in 0..NumChildren(xml_file[ev.index]) :
                     LET elem == SeenAtStart(xml_file[ev.index], seen)
                         _elnds == findall(elem, "nd")
                         _elmembers == findall(elem, "member")
                     IN  /\ xml_tags' = xml_tags \o TagPairs(findall(elem, "tag"))
                         /\ xml_nds' = IF Len(_elnds) > 0 THEN NdRefs(_elnds) ELSE xml_nds
                         /\ xml_members' = IF Len(_elmembers) > 0
                                           THEN MemberRefs(_elmembers) ELSE xml_members
    /\ pos' = pos + 1
    /\ UNCHANGED <<rules_tsv, pc, rules, element, de_facto_tags, new_tags, data_xml, output,
                   xml_file, xml_filter, el, raised>>

\* the block `if event == 'end'` past its `continue`: build the element,
\* reset the accumulators, print its block when the filter lets it through
V1EndEvent ==
    /\ pc = "v1loop"
    /\ pos < Len(context_v1)
    /\ LET ev == context_v1[pos + 1]
           built == OSMElement(ev.tag, xml_file[ev.index].attrib, Some(xml_tags),
                               Some(xml_nds), Some(xml_members), xml_filter, None)
           can == can_output(built)
       IN  /\ ev.tag \notin {"bounds", "osm", "nd", "member", "tag"}
           /\ ev.event = "end"
           /\ IF ev.tag \notin DOMAIN OSM_ELEMENT_PREFIX
              THEN /\ raised' = "KeyError"
                   /\ pc' = "v1raised"
                   /\ UNCHANGED <<xml_tags, xml_nds, xml_members, el, output>>
              ELSE /\ xml_tags' = <<>>
                   /\ xml_nds' = <<>>
                   /\ xml_members' = <<>>
                   /\ el' = Append(el, built)
                   /\ output' = IF can.raised = "" /\ can.value
                                THEN output \o to_ttl(built) \o <<"">> ELSE output
                   /\ raised' = can.raised
                   /\ pc' = IF can.raised = "" THEN "v1loop" ELSE "v1raised"
    /\ pos' = pos + 1
    /\ UNCHANGED <<rules_tsv, rules, element, de_facto_tags, new_tags, data_xml, xml_file,
                   xml_filter>>

\* the iterator is exhausted
V1End ==
    /\ pc = "v1loop"
    /\ pos = Len(context_v1)
    /\ pc' = "v1end"
    /\ UNCHANGED <<rules_tsv, rules, element, de_facto_tags, new_tags, data_xml, output,
                   xml_file, xml_filter, pos, xml_tags, xml_nds, xml_members, el, raised>>

NextDumpV1 == V1Start \/ V1Skip \/ V1StartEvent \/ V1EndEvent \/ V1End

-----------------------------------------------------------------------------
(* SpecStream: either streaming converter on a document of elements with   *)
(* and without children of each kind                                       *)

StreamPrimitives ==
    { Primitive("node", <<[k |-> <<"a">>, v |-> "x"]>>, <<>>, <<>>, <<>>),
      Primitive("node", <<>>, <<>>, <<>>, <<>>),
      Primitive("way", <<[k |-> Wikidata, v |-> "Q42"]>>, <<[k |-> <<"c">>, v |-> "x"]>>,
                <<[ref |-> <<"5">>]>>, <<>>),
      Primitive("way", <<[k |-> <<"a">>, v |-> "x"]>>, <<>>, <<[ref |-> <<"5">>]>>, <<>>),
      Primitive("relation", <<>>, <<>>, <<>>,
                <<[type |-> "way", ref |-> <<"5">>, role |-> Some("outer")]>>) }

StreamDocuments ==
    {WithIds(d) : d \in SeqsUpTo(StreamPrimitives \cup {DumpBounds}, MaxElems)}

\* no filter, a deny-list that holds way, an allow-list without relation
StreamFilters ==
    { None,
      Some([xml_tags |-> None, xml_tags_not |-> Some(<<"way">>)]),
      Some([xml_tags |-> Some(<<"node", "way">>), xml_tags_not |-> None]) }

\* osmrdf_xmldump2_ttl_v2 starts at "start", osmrdf_xmldump2_ttl, which
\* takes no retagger, at "v1start"
InitStream ==
    /\ pc \in {"start", "v1start"}
    /\ xml_file \in StreamDocuments
    /\ xml_filter \in StreamFilters
    /\ rules \in (IF pc = "start" THEN DumpRuleLists ELSE {<<>>})
    /\ rules_tsv = <<>>
    /\ pos = 0
    /\ xml_tags = <<>>
    /\ xml_nds = <<>>
    /\ xml_members = <<>>
    /\ el = <<>>
    /\ raised = ""
    /\ output = <<>>
    /\ data_xml = <<>>
    /\ element = ""
    /\ de_facto_tags = <<>>
    /\ new_tags = [raised |-> "", tags |-> <<>>]

NextStream == NextDump \/ NextDumpV1

SpecStream == InitStream /\ [][NextStream]_vars

-----------------------------------------------------------------------------
(* OSMElementTagger.__init__ and parse_rules                               *)
(* A rule text is a sequence of one-character strings; "\t" separates the  *)
(* fields of a line and "\n" the lines.                                    *)

\* str.split(sep) for a separator of one character
RECURSIVE Split(_, _)
Split(s, sep) ==
    IF \A k \in 1..Len(s) : s[k] # sep THEN <<s>>
    ELSE LET at == CHOOSE k \in 1..Len(s) :
                       s[k] = sep /\ \A j \in 1..(k - 1) : s[j] # sep
         IN  <<SubSeq(s, 1, at - 1)>> \o Split(SubSeq(s, at + 1, Len(s)), sep)

\* str.splitlines() of a text whose only line boundary is "\n": no line
\* for the empty text, no empty last line after a final "\n"
SplitLines(s) ==
    IF s = <<>> THEN <<>>
    ELSE IF s[Len(s)] = "\n" THEN Split(SubSeq(s, 1, Len(s) - 1), "\n")
    ELSE Split(s, "\n")

\* str.replace(old, '') for a one-character old
Replace(s, old) == SelectSeq(s, LAMBDA c : c # old)

\* the body of the loop of parse_rules for the line `text` at `index`:
\* the rule it appends, or the exception it raises and its message
ParseLine(index, text) ==
    LET line == Split(text, "\t")
        pieces == Split(Replace(Replace(line[2], "<"), ">"), "|")
        _xml_tag == [k \in 1..Len(pieces) |-> JoinStr(pieces[k])]
        _xml_attrs == line[3]
        kv == Split(line[4], "=")
        Raise(class, msg) == [raised |-> class, msg |-> msg, rule |-> <<>>]
    IN  IF Len(line) < 4
        THEN Raise("IndexError", "list index out of range")
        ELSE IF Len(kv) < 2
        THEN Raise("ValueError", "not enough values to unpack (expected 2, got 1)")
        ELSE IF Len(kv) > 2
        THEN Raise("ValueError", "too many values to unpack (expected 2)")
        ELSE IF Len(_xml_attrs) = 0
        THEN Raise("IndexError", "string index out of range")
        ELSE [raised |-> "", msg |-> "",
              rule |-> [i |-> index, op |-> JoinStr(line[1]),
                        xt |-> IF _xml_tag[1] = "*" THEN None ELSE Some(_xml_tag),
                        xa |-> IF _xml_attrs[1] = "*" THEN None
                               ELSE Some(JoinStr(_xml_attrs)),
                        xack |-> kv[1], xacv |-> JoinStr(kv[2])]]

\* the loop `for index, line in enumerate(parts)`, from position index on
RECURSIVE ParseLoop(_, _, _)
ParseLoop(parts, index, acc) ==
    IF index >= Len(parts) THEN [raised |-> "", msg |-> "", rules |-> acc]
    ELSE LET parsed == ParseLine(index, parts[index + 1])
         IN  IF parsed.raised # ""
             THEN [raised |-> parsed.raised, msg |-> parsed.msg, rules |-> acc]
             ELSE ParseLoop(parts, index + 1, Append(acc, parsed.rule))

\* the try block of parse_rules: the local list `rules` when the loop ends,
\* or the exception that left it
parse_rules(text) == ParseLoop(SplitLines(text), 0, <<>>)

\* `if rules: self.parse_rules(rules)`, with the except block of parse_rules:
\* three prints and sys.exit(); self.rules is assigned after the loop only
TaggerInit ==
    /\ pc = "tagger"
    /\ LET parsed == parse_rules(rules_tsv)
       IN  IF Len(rules_tsv) = 0
           THEN /\ rules' = rules
                /\ output' = output
                /\ raised' = raised
                /\ pc' = "retag"
           ELSE IF parsed.raised # ""
           THEN /\ rules' = rules
                /\ output' = output \o
                       << "ERROR OSMElementTagger: " \o parsed.msg,
                          "--- start of file ---",
                          JoinStr(rules_tsv),
                          "--- end of file ---" >>
                /\ raised' = "SystemExit"
                /\ pc' = "exited"
           ELSE /\ rules' = IF Len(parsed.rules) > 0 THEN parsed.rules ELSE rules
                /\ output' = output
                /\ raised' = raised
                /\ pc' = "retag"
    /\ UNCHANGED <<rules_tsv, element, de_facto_tags, new_tags, data_xml, xml_file,
                   xml_filter, pos, xml_tags, xml_nds, xml_members, el>>

-----------------------------------------------------------------------------
(* SpecParse: a tagger is built from a rule text and, when the process     *)
(* survives that, retag is called on it                                    *)

\* the fields a line is made of, by position
RuleOps == {<<"+">>, <<"-">>}
RuleXts == {<<"*">>, <<"<", "n", "o", "d", "e", ">", "|", "<", "w", "a", "y", ">">>}
RuleXas == {<<"*">>, <<>>}
RuleKvs == {<<"a", "=", "v">>, <<"a">>, <<"a", "=", "v", "=", "v">>}
RuleExtra == {<<"x">>}

\* the first four fields of a line: every op and element list on a
\* well-formed rule, and each other third and fourth field on one rule
RuleBases ==
    {<<op, xt, <<"*">>, <<"a", "=", "v">>>> : op \in RuleOps, xt \in RuleXts}
    \cup {<<<<"+">>, <<"*">>, <<"*">>, kv>> : kv \in RuleKvs}
    \cup {<<<<"+">>, <<"*">>, xa, <<"a", "=", "v">>>> : xa \in RuleXas}

RuleFieldLists ==
    {SubSeq(b \o [k \in 1..(MaxFields - 4) |-> extra], 1, n) :
         b \in RuleBases, extra \in RuleExtra, n \in 1..MaxFields}

\* sep.join(parts) on sequences of characters
RECURSIVE JoinChars(_, _)
JoinChars(parts, sep) ==
    IF Len(parts) = 0 THEN <<>>
    ELSE IF Len(parts) = 1 THEN parts[1]
    ELSE parts[1] \o <<sep>> \o JoinChars(Tail(parts), sep)

\* lines of one to MaxFields fields, and the blank line
RuleLines == {JoinChars(f, "\t") : f \in RuleFieldLists} \cup {<<>>}

RuleTexts == {JoinChars(ls, "\n") : ls \in SeqsUpTo(RuleLines, MaxRuleLines)}

InitParse ==
    /\ pc = "tagger"
    /\ rules_tsv \in RuleTexts
    /\ rules = None
    /\ element = "way"
    /\ de_facto_tags \in {<<>>, << <<<<"a">>, "x">> >>}
    /\ new_tags = [raised |-> "", tags |-> <<>>]
    /\ data_xml = <<>>
    /\ output = <<>>
    /\ NoDump

NextParse == TaggerInit \/ CallRetag

SpecParse == InitParse /\ [][NextParse]_vars

-----------------------------------------------------------------------------
(* Claims                                                                  *)

\* a rule targets the element kind when its filter is the wildcard or lists it
Targets(rule, kind) == rule.xt = None \/ kind \in Range(rule.xt[1])

ReturnedOk == pc = "returned" /\ new_tags.raised = ""

\* C1: with two or more rules applicable to the element's kind, the returned
\* list reflects the rewrite of every applicable rule: a pair dropped by an
\* earlier remove rule (its key is the rule's key) is absent from the result
\* when a later rule also applies.
C1_EveryApplicableRuleRewrites ==
    (ReturnedOk /\ Cardinality({r \in 1..Len(rules) : Targets(rules[r], element)}) >= 2)
    => \A r1 \in 1..Len(rules) : \A r2 \in (r1 + 1)..Len(rules) :
           (Targets(rules[r1], element) /\ Targets(rules[r2], element)
                /\ rules[r1].op = "-")
           => \A j \in 1..Len(de_facto_tags) :
                  de_facto_tags[j][1] = rules[r1].xack
                  => de_facto_tags[j] \notin Range(new_tags.tags)

FirstWithKey(tags, key) ==
    CHOOSE j \in 1..Len(tags) :
        tags[j][1] = key /\ \A i \in 1..(j - 1) : tags[i][1] # key

SingleRule(op) ==
    /\ pc = "returned"
    /\ Len(rules) = 1
    /\ rules[1].op = op
    /\ Targets(rules[1], element)

\* C2: a single add rule that targets the kind, applied to a list with at least
\* one pair whose key is the rule's key, returns the input with the value of
\* the first such pair overwritten, every other pair unchanged and in place,
\* and nothing appended.
C2_AddOverwritesFirstMatchInPlace ==
    (SingleRule("+") /\ \E j \in 1..Len(de_facto_tags) :
                            de_facto_tags[j][1] = rules[1].xack)
    => new_tags =
          [raised |-> "",
           tags |-> [de_facto_tags EXCEPT
                       ![FirstWithKey(de_facto_tags, rules[1].xack)] =
                           <<rules[1].xack, rules[1].xacv>>]]

KeyLacks(pair, sub) == ~StrIn(sub, pair[1])

\* C3: a single remove rule that targets the kind returns the input without
\* exactly the pairs whose key contains the rule's key as a substring, the
\* other pairs in order, and raises nothing, however many pairs match.
C3_RemoveDropsAllContainingPairs ==
    SingleRule("-")
    => new_tags =
          [raised |-> "",
           tags |-> SelectSeq(de_facto_tags,
                              LAMBDA pair : KeyLacks(pair, rules[1].xack))]

\* C4: with a non-empty rule set none of whose rules targets the kind, retag
\* returns a list equal to its input.
C4_UntargetedKindUnchanged ==
    (pc = "returned" /\ Len(rules) >= 1
        /\ \A r \in 1..Len(rules) : ~Targets(rules[r], element))
    => new_tags = [raised |-> "", tags |-> de_facto_tags]

\* C5: a single add rule that targets the kind, applied to a list in which no
\* pair has the rule's key, returns all input pairs unchanged and in order
\* followed by exactly one pair equal to the rule's (key, value).
C5_AddAppendsAbsentKey ==
    (SingleRule("+") /\ \A j \in 1..Len(de_facto_tags) :
                            de_facto_tags[j][1] # rules[1].xack)
    => new_tags =
          [raised |-> "",
           tags |-> Append(de_facto_tags, <<rules[1].xack, rules[1].xacv>>)]

\* a kind passes the filter when (the allow-list is empty or holds it) and
\* (the deny-list is empty or does not hold it); no filter means both empty
ClaimedAllow == IF xml_filter = None \/ xml_filter[1].xml_tags = None
                THEN {} ELSE Range(xml_filter[1].xml_tags[1])

ClaimedDeny == IF xml_filter = None \/ xml_filter[1].xml_tags_not = None
               THEN {} ELSE Range(xml_filter[1].xml_tags_not[1])

ClaimedPass(kind) ==
    /\ ClaimedAllow = {} \/ kind \in ClaimedAllow
    /\ ClaimedDeny = {} \/ kind \notin ClaimedDeny

\* the subject line of the k-th element of the document
SubjectOf(k) == OSM_ELEMENT_PREFIX[xml_file[k].tag] \o ToString(k)

AnySubject ==
    {OSM_ELEMENT_PREFIX[kind] \o ToString(k) : kind \in ElementKinds, k \in 1..MaxElems}

IsSubject(line) == line \in AnySubject

IsEmitted(k) == xml_file[k].tag \in ElementKinds /\ ClaimedPass(xml_file[k].tag)

\* the subjects of the elements to emit, from element k on, in document order
RECURSIVE ClaimedSubjects(_)
ClaimedSubjects(k) ==
    IF k > Len(xml_file) THEN <<>>
    ELSE (IF IsEmitted(k) THEN <<SubjectOf(k)>> ELSE <<>>) \o ClaimedSubjects(k + 1)

\* C6: in dump-streaming mode the printed output is the prefix block first,
\* then exactly one block for each node, way or relation of the document
\* whose kind passes the filter, in document order, and no other block; with
\* no filter configured every element is emitted.
C6_DumpEmitsPassingElementsInOrder ==
    pc \in {"end", "raised"}
    => /\ SubSeq(output, 1, Len(RDF_TURTLE_PREFIXES) + 1) = RDF_TURTLE_PREFIXES \o <<"">>
       /\ SelectSeq(output, IsSubject) = ClaimedSubjects(1)

\* the element a single-element converter was given and the block it rendered
GivenAttrib == data_xml.children[1].attrib

Rendered == to_ttl(el[1])

Positions(lines, line) == {i \in 1..Len(lines) : lines[i] = line}

\* the type literal the claim gives each element kind
ClaimedTypeLiteral == [node |-> "n", way |-> "w", relation |-> "r"]

\* C7: to_ttl emits the osmm:type line for every element of kind node, way or
\* relation, with literal "n", "w" or "r" respectively, right after the
\* timestamp line when the element has a timestamp and right before the user
\* line when it has a user.
C7_TypeLineForEveryKind ==
    pc = "done"
    => \E i \in Positions(Rendered, TypeLine(ClaimedTypeLiteral[el[1]._tag])) :
           /\ GivenAttrib.timestamp # None
                  => i - 1 \in Positions(Rendered, TimestampLine(GivenAttrib.timestamp[1]))
           /\ GivenAttrib.user # None
                  => i + 1 \in Positions(Rendered, UserLine(GivenAttrib.user[1]))

NumValues == {PyInt(t[1]) : t \in NumText \ {None}}

AnyLocLine == {LocLine(a, b) : a \in NumValues, b \in NumValues}

AnyChangesetLine == {ChangesetLine(n) : n \in NumValues}

AnyUseridLine == {UseridLine(n) : n \in NumValues}

AnyVersionLine == {VersionLine(v[1]) : v \in VersionText \ {None}}

\* C8: to_ttl emits the osmm:loc line if and only if both lat and lon are
\* present, whatever their numeric value (0 included), and each of the
\* changeset, userid and version lines exactly when its attribute is present.
C8_LinesEmittedIffAttributePresent ==
    pc = "done"
    => /\ (Range(Rendered) \cap AnyLocLine # {})
              <=> (GivenAttrib.lat # None /\ GivenAttrib.lon # None)
       /\ (Range(Rendered) \cap AnyChangesetLine # {}) <=> (GivenAttrib.changeset # None)
       /\ (Range(Rendered) \cap AnyUseridLine # {}) <=> (GivenAttrib.uid # None)
       /\ (Range(Rendered) \cap AnyVersionLine # {}) <=> (GivenAttrib.version # None)

\* C9: each single-element converter returns exactly the 9 PREFIX lines, one
\* empty line, the lines of the element's rendered block (subject first, '.'
\* last), one empty line, and nothing else.
C9_DocumentIsPrefixesBlockBlank ==
    pc = "done"
    => /\ Len(RDF_TURTLE_PREFIXES) = 9
       /\ Rendered[1] = el[1]._basegroup
       /\ Rendered[Len(Rendered)] = "."
       /\ output = RDF_TURTLE_PREFIXES \o <<"">> \o Rendered \o <<"">>

\* the tag lines the claim describes: the plain line of every pair, followed
\* by the cast line exactly when the encoded key is 'wikidata'
RECURSIVE ClaimedTagLines(_)
ClaimedTagLines(tags) ==
    IF Len(tags) = 0 THEN <<>>
    ELSE LET key == osmrdf_tagkey_encode(tags[1][1])
         IN  <<TagLine(key, tags[1][2])>>
             \o (IF key = Wikidata THEN <<cast_to_ttl(key, tags[1][2])>> ELSE <<>>)
             \o ClaimedTagLines(Tail(tags))

TagsOf(e) == IF e._el_osm_tags = None THEN <<>> ELSE e._el_osm_tags[1]

\* C10: tag value casting is additive on every element built, in
\* single-element mode as in dump mode: every pair gets its plain osmt line,
\* immediately followed by the osmx:wikidata line when the encoded key is
\* 'wikidata', and no cast line follows any other key.
C10_CastLineFollowsWikidataTag ==
    pc = "done"
    => \A k \in 1..Len(el) :
           LET block == to_ttl(el[k])
               lines == ClaimedTagLines(TagsOf(el[k]))
           IN  \E i \in 0..(Len(block) - Len(lines)) :
                   SubSeq(block, i + 1, i + Len(lines)) = lines

\* the number of occurrences of the character ch in s
Occurrences(s, ch) == Cardinality({k \in 1..Len(s) : s[k] = ch})

\* a line as the claim describes a bad one: not exactly four tab-separated
\* fields, or a fourth field without exactly one "="
ClaimedBadLine(line) ==
    \/ Occurrences(line, "\t") + 1 # 4
    \/ Occurrences(Split(line, "\t")[4], "=") # 1

\* the tagger has been built from a non-empty rule text, or the attempt has
\* ended the process
RulesLoaded == pc \in {"retag", "returned", "exited"} /\ Len(rules_tsv) > 0

\* C11: rule loading is all-or-nothing: when any line of the rule text does
\* not have exactly four tab-separated fields, or its fourth field lacks a
\* single key=value separator, building the tagger ends the process and
\* installs no rules
C11_BadLineAbortsRuleLoading ==
    (RulesLoaded /\ \E k \in 1..Len(SplitLines(rules_tsv)) :
                        ClaimedBadLine(SplitLines(rules_tsv)[k]))
        => (pc = "exited" /\ rules = None)

\* the element of the document that the built element e was made from: the
\* documents number their elements by position in the id attribute
SourceOf(e) == xml_file[e.id[1]]

\* the complete tag list of a document element: its tag children, then its
\* tagi children
CompleteTags(src) == TagPairs(findall(src, "tag")) \o TagPairs(findall(src, "tagi"))

\* the keys of the add rules that apply to kind and are absent from tags
AbsentAddKeys(kind, tags) ==
    {rules[r].xack : r \in {q \in 1..Len(rules) :
        /\ rules[q].op = "+"
        /\ Targets(rules[q], kind)
        /\ \A t \in 1..Len(tags) : tags[t][1] # rules[q].xack}}

\* the number of pairs of tags whose key is key
PairsWithKey(tags, key) == Cardinality({t \in 1..Len(tags) : tags[t][1] = key})

\* C12: in dump-streaming mode the rule engine is evaluated once per element
\* on its complete tag list: the tags of every constructed element equal one
\* application of retag to its tag and tagi children together, and an add
\* rule for a key absent from those yields exactly one pair with that key
C12_RetagAppliedOncePerElement ==
    \A j \in 1..Len(el) :
        LET src == SourceOf(el[j])
            once == Retag(rules, src.tag, CompleteTags(src))
        IN  once.raised = ""
            => /\ TagsOf(el[j]) = once.tags
               /\ \A key \in AbsentAddKeys(src.tag, CompleteTags(src)) :
                      PairsWithKey(TagsOf(el[j]), key) = 1

NdsOf(e) == IF e._el_osm_nds = None THEN <<>> ELSE e._el_osm_nds[1]

MembersOf(e) == IF e._el_osm_members = None THEN <<>> ELSE e._el_osm_members[1]

IsPrefix(s, t) == Len(s) <= Len(t) /\ s = SubSeq(t, 1, Len(s))

\* the next event starts the processing of a node, way or relation: its
\* 'end' event in osmrdf_xmldump2_ttl_v2, its 'start' event in
\* osmrdf_xmldump2_ttl
AtNewElement ==
    \/ /\ pc = "loop"
       /\ pos < Len(context)
       /\ context[pos + 1].tag \in ElementKinds
    \/ /\ pc = "v1loop"
       /\ pos < Len(context_v1)
       /\ context_v1[pos + 1].event = "start"
       /\ context_v1[pos + 1].tag \in ElementKinds

\* the built element e holds nothing but what its own children give:
\* osmrdf_xmldump2_ttl_v2 makes its tags from its tag and tagi children by
\* its two retag calls and takes all its nd and member children;
\* osmrdf_xmldump2_ttl takes the children its 'start' event showed, which
\* are the first ones
CarriesOwnChildrenOnly(e) ==
    LET src == SourceOf(e)
        own == TagPairs(findall(src, "tag"))
        first == Retag(rules, src.tag, own)
        second == Retag(rules, src.tag, first.tags \o TagPairs(findall(src, "tagi")))
    IN  IF pc \in {"loop", "end", "raised"}
        THEN /\ TagsOf(e) = second.tags
             /\ NdsOf(e) = NdRefs(findall(src, "nd"))
             /\ MembersOf(e) = MemberRefs(findall(src, "member"))
        ELSE /\ IsPrefix(TagsOf(e), own)
             /\ IsPrefix(NdsOf(e), NdRefs(findall(src, "nd")))
             /\ IsPrefix(MembersOf(e), MemberRefs(findall(src, "member")))

\* C13: in dump-streaming mode the tag, node-ref and member accumulators
\* are empty whenever the processing of a new node, way or relation begins,
\* and every element built carries only the tags, node refs and members of
\* its own children, never those of an element processed before it
C13_AccumulatorsEmptyAtEachElement ==
    /\ AtNewElement => (xml_tags = <<>> /\ xml_nds = <<>> /\ xml_members = <<>>)
    /\ \A j \in 1..Len(el) : CarriesOwnChildrenOnly(el[j])

\* a way with a tag and a node ref was built and filtered out, and a node
\* without children was built after it; the accumulators are empty again
C13_Witness_FilteredWayThenBareNode ==
    /\ pc = "end"
    /\ Len(el) = 2
    /\ el[1]._tag = "way" /\ ~can_output(el[1]).value
    /\ TagsOf(el[1]) # <<>> /\ NdsOf(el[1]) # <<>>
    /\ el[2]._tag = "node"
    /\ CompleteTags(SourceOf(el[2])) = <<>>
    /\ TagsOf(el[2]) = <<>> /\ NdsOf(el[2]) = <<>>
    /\ xml_tags = <<>> /\ xml_nds = <<>> /\ xml_members = <<>>

====
